---------------------------- MODULE Spec2Model ----------------------------
(***************************************************************************)
(* Model of pkg/ipcache/types/types.go: the ResourceID encoding and the    *)
(* metadata value types EncryptKey, RequestedIdentity and EndpointFlags.   *)
(*                                                                         *)
(* A Go string is modelled as a sequence of one-character strings, so that *)
(* "cnp/ns/x" is <<"c","n","p","/","n","s","/","x">>.  An optional result  *)
(* (a call that has not been made yet) is the empty tuple, a result v that *)
(* has been returned is <<v>>.                                             *)
(***************************************************************************)
EXTENDS Integers, Sequences, FiniteSets, TLC

VARIABLES
    kind, namespace, name,   \* arguments of NewResourceID
    rid,                     \* result of NewResourceID(kind, namespace, name)
    nsOut,                   \* result of rid.Namespace()
    raw, rawNsOut,           \* an arbitrary ResourceID string and its Namespace()
    other, otherId,          \* a second argument triple and its ResourceID
    key, keyValid, keyUint8, keyString,   \* an EncryptKey and its accessors' results
    reqId, reqValid, reqID,  \* a RequestedIdentity and its accessors' results
    e,                       \* an EndpointFlags instance
    calls,                   \* arguments of the SetSkipTunnel calls made on e, in order
    validOut, uint8Out,      \* last results of e.IsValid() and e.Uint8()
    lock,                    \* holder of the owner's external lock on e, or "free"
    wpc, warg,               \* per writer: position inside SetSkipTunnel, its argument
    rpc, rValid, rBits,      \* per reader: position, observed IsValid(), observed Uint8()
    quiet,                   \* (IsValid, Uint8) pair of e after the last complete call
    allowed                  \* per reader: pairs of e before/after the calls it overlaps

ridVars  == <<kind, namespace, name, rid, nsOut, raw, rawNsOut, other, otherId>>
keyVars  == <<key, keyValid, keyUint8, keyString>>
reqVars  == <<reqId, reqValid, reqID>>
flagVars == <<e, calls, validOut, uint8Out>>
concVars == <<lock, wpc, warg, rpc, rValid, rBits, quiet, allowed>>
vars     == <<ridVars, keyVars, reqVars, flagVars, concVars>>

----------------------------------------------------------------------------
(* Bounds *)

\* longest namespace, name, raw string and free-form kind that is enumerated
MaxLen == 2
\* longest namespace and name enumerated when two triples are compared
MaxPairLen == 1
\* largest numeric identity that is enumerated
MaxNumericIdentity == 70
\* longest history of SetSkipTunnel calls on one instance
MaxCalls == 4

\* characters namespaces, names and raw strings are built from
Alphabet == {"a", "/"}

Strings(n) == UNION {[1..k -> Alphabet] : k \in 0..n}

None == <<>>
Some(v) == <<v>>

NoSlash(s) == \A i \in 1..Len(s) : s[i] # "/"

----------------------------------------------------------------------------
(* ResourceKind, ResourceID *)

ResourceKindCCNP      == <<"c","c","n","p">>
ResourceKindCIDRGroup == <<"c","i","d","r","g","r","o","u","p">>
ResourceKindCNP       == <<"c","n","p">>
ResourceKindDaemon    == <<"d","a","e","m","o","n">>
ResourceKindEndpoint  == <<"e","p">>
ResourceKindFile      == <<"f","i","l","e">>
ResourceKindNetpol    == <<"n","e","t","p","o","l">>
ResourceKindNode      == <<"n","o","d","e">>

ResourceKinds ==
    { ResourceKindCCNP, ResourceKindCIDRGroup, ResourceKindCNP, ResourceKindDaemon,
      ResourceKindEndpoint, ResourceKindFile, ResourceKindNetpol, ResourceKindNode }

\* strings.Builder: the bytes written so far and the capacity of the buffer
NewBuilder == [buf |-> <<>>, cap |-> 0]

\* Builder.Grow(n): room for n more bytes, contents unchanged
Grow(b, n) ==
    IF b.cap - Len(b.buf) < n THEN [b EXCEPT !.cap = 2 * b.cap + n] ELSE b

\* Builder.WriteString(s): append s
WriteString(b, s) ==
    LET grown == Grow(b, Len(s)) IN [grown EXCEPT !.buf = b.buf \o s]

\* Builder.WriteRune(c): append the one character c
WriteRune(b, c) ==
    LET grown == Grow(b, 1) IN [grown EXCEPT !.buf = Append(b.buf, c)]

\* mutation: the delimiter between namespace and name is not written
NewResourceIDNoSecondDelimiter(k, ns, nm) ==
    LET s1 == WriteString(NewBuilder, k)
        s2 == WriteRune(s1, "/")
        s3 == WriteString(s2, ns)
        s4 == WriteString(s3, nm)
    IN  s4.buf

NewResourceID(k, ns, nm) ==
    LET s0 == Grow(NewBuilder, Len(k) + 1 + Len(ns) + 1 + Len(nm))
        s1 == WriteString(s0, k)
        s2 == WriteRune(s1, "/")
        s3 == WriteString(s2, ns)
        s4 == WriteRune(s3, "/")
        s5 == WriteString(s4, nm)
    IN  s5.buf

\* strings.Index for a one-character separator: 1-based position of the
\* first occurrence, 0 when there is none
Index(s, sep) ==
    IF \E i \in 1..Len(s) : s[i] = sep
    THEN CHOOSE i \in 1..Len(s) : s[i] = sep /\ \A j \in 1..(i-1) : s[j] # sep
    ELSE 0

\* the loop of strings.SplitN: cut at the first separator while cuts remain,
\* the remainder is the last part
RECURSIVE SplitLoop(_, _, _, _)
SplitLoop(s, sep, cuts, acc) ==
    LET m == Index(s, sep) IN
    IF cuts > 0 /\ m > 0
    THEN SplitLoop(SubSeq(s, m + 1, Len(s)), sep, cuts - 1, Append(acc, SubSeq(s, 1, m - 1)))
    ELSE Append(acc, s)

\* strings.SplitN(s, sep, n) for n >= 0 and a one-character sep
SplitN(s, sep, n) ==
    IF n = 0 THEN <<>>
    ELSE LET m == IF n > Len(s) + 1 THEN Len(s) + 1 ELSE n
         IN  SplitLoop(s, sep, m - 1, <<>>)

\* mutation: the first part is returned instead of the second
NamespaceFirstPart(r) ==
    LET parts == SplitN(r, "/", 3) IN
    IF Len(parts) < 2 THEN <<>> ELSE parts[1]

\* mutation: the string is split at every delimiter and the part before the
\* last one is returned
NamespaceFromEnd(r) ==
    LET parts == SplitN(r, "/", Len(r) + 1) IN
    IF Len(parts) < 2 THEN <<>> ELSE parts[Len(parts) - 1]

\* mutation: no fallback for a string without delimiter
NamespaceNoFallback(r) ==
    LET parts == SplitN(r, "/", 3) IN
    IF Len(parts) < 2 THEN parts[1] ELSE parts[2]

Namespace(r) ==
    LET parts == SplitN(r, "/", 3) IN
    IF Len(parts) < 2 THEN <<>> ELSE parts[2]

----------------------------------------------------------------------------
(* EncryptKey *)

\* largest value of a uint8
MaxUint8 == 255

\* conversion of an integer to the uint8 underlying EncryptKey
EncryptKey(k) == k % (MaxUint8 + 1)

EncryptKeyEmpty == EncryptKey(0)

EncryptKeyIsValid(k) == k # EncryptKeyEmpty

EncryptKeyUint8(k) == k % (MaxUint8 + 1)

DigitChars == <<"0", "1", "2", "3", "4", "5", "6", "7", "8", "9">>

\* strconv.Itoa for a non-negative integer: the digits from the least
\* significant one, each put in front of those produced so far
RECURSIVE FormatBits(_, _)
FormatBits(u, acc) ==
    IF u >= 10
    THEN FormatBits(u \div 10, <<DigitChars[(u % 10) + 1]>> \o acc)
    ELSE <<DigitChars[u + 1]>> \o acc

Itoa(i) == FormatBits(i, <<>>)

\* mutation: the key is formatted as one digit when it is below 100
EncryptKeyStringSmall(k) == IF k < 100 THEN <<DigitChars[(k % 10) + 1]>> ELSE Itoa(k)

EncryptKeyString(k) == Itoa(k)

----------------------------------------------------------------------------
(* RequestedIdentity *)

\* identity.NumericIdentity and RequestedIdentity have the same underlying
\* unsigned integer type; a conversion between them keeps the value
NumericIdentity(v) == v

RequestedIdentity(v) == NumericIdentity(v)

\* mutation: identity 1 is treated as a sentinel too
RequestedIdentityIsValidAboveOne(id) == id > 1

RequestedIdentityIsValid(id) == id # 0

RequestedIdentityID(id) == NumericIdentity(id)

----------------------------------------------------------------------------
(* EndpointFlags *)

\* the zero value of the struct
NewEndpointFlags == [isInit |-> FALSE, flagSkipTunnel |-> FALSE]

\* bitwise or of two uint8 values
RECURSIVE BitOr8(_, _, _)
BitOr8(a, b, bits) ==
    IF bits = 0 THEN 0
    ELSE (IF a % 2 = 1 \/ b % 2 = 1 THEN 1 ELSE 0)
         + 2 * BitOr8(a \div 2, b \div 2, bits - 1)

\* 1 << iota, with iota = 0 for the first constant of the block
FlagSkipTunnel == (1 * (2 ^ 0)) % (MaxUint8 + 1)

\* e.isInit = true
StoreIsInit(f) == [f EXCEPT !.isInit = TRUE]

\* mutation: the skip-tunnel flag is not stored
StoreFlagSkipTunnelDropped(f, skip) == f

\* e.flagSkipTunnel = skip
StoreFlagSkipTunnel(f, skip) == [f EXCEPT !.flagSkipTunnel = skip]

\* mutation: the value is marked initialized only when the flag is set
SetSkipTunnelInitFromArg(f, skip) ==
    StoreFlagSkipTunnel([f EXCEPT !.isInit = skip], skip)

SetSkipTunnel(f, skip) == StoreFlagSkipTunnel(StoreIsInit(f), skip)

EndpointFlagsIsValid(f) == f.isInit

\* mutation: the initialized flag is encoded in bit 1
EndpointFlagsUint8WithInit(f) ==
    LET flags0 == 0
        flags1 == IF f.flagSkipTunnel THEN BitOr8(flags0, FlagSkipTunnel, 8) ELSE flags0
    IN  IF f.isInit THEN BitOr8(flags1, 2, 8) ELSE flags1

EndpointFlagsUint8(f) ==
    LET flags0 == 0
    IN  IF f.flagSkipTunnel THEN BitOr8(flags0, FlagSkipTunnel, 8) ELSE flags0

----------------------------------------------------------------------------
(* Initial values of the parts a specification does not exercise *)

IdleRID ==
    /\ kind = ResourceKindDaemon /\ namespace = <<>> /\ name = <<>>
    /\ rid = None /\ nsOut = None /\ raw = None /\ rawNsOut = None
    /\ other = None /\ otherId = None

IdleKey == key = EncryptKeyEmpty /\ keyValid = None /\ keyUint8 = None /\ keyString = None

IdleReq == reqId = RequestedIdentity(0) /\ reqValid = None /\ reqID = None

IdleFlags ==
    e = NewEndpointFlags /\ calls = <<>> /\ validOut = None /\ uint8Out = None

Writers == {"w1", "w2"}
Readers == {"r1", "r2"}
\* the readers that take the owner's lock around their two reads
LockedReaders == {"r2"}

\* the (IsValid, Uint8) pair of a value nobody has set, and of a value after
\* a complete SetSkipTunnel(skip)
FreshPair == <<FALSE, 0>>
PairAfter(skip) == <<TRUE, IF skip THEN 1 ELSE 0>>

IdleConc ==
    /\ lock = "free"
    /\ wpc = [w \in Writers |-> "idle"] /\ warg = [w \in Writers |-> FALSE]
    /\ rpc = [r \in Readers |-> "idle"]
    /\ rValid = [r \in Readers |-> FALSE] /\ rBits = [r \in Readers |-> 0]
    /\ quiet = FreshPair
    /\ allowed = [r \in Readers |-> {}]

----------------------------------------------------------------------------
(* ResourceID: one triple, its ID, the namespace read back from it *)

Init ==
    /\ kind \in ResourceKinds \cup Strings(MaxLen)
    /\ namespace \in Strings(MaxLen)
    /\ name \in Strings(MaxLen)
    /\ rid = None /\ nsOut = None /\ raw = None /\ rawNsOut = None
    /\ other = None /\ otherId = None
    /\ IdleKey /\ IdleReq /\ IdleFlags /\ IdleConc

CallNewResourceID ==
    /\ rid = None
    /\ rid' = Some(NewResourceID(kind, namespace, name))
    /\ UNCHANGED <<kind, namespace, name, nsOut, raw, rawNsOut, other, otherId>>
    /\ UNCHANGED <<keyVars, reqVars, flagVars, concVars>>

CallNamespace ==
    /\ rid # None /\ nsOut = None
    /\ nsOut' = Some(Namespace(rid[1]))
    /\ UNCHANGED <<kind, namespace, name, rid, raw, rawNsOut, other, otherId>>
    /\ UNCHANGED <<keyVars, reqVars, flagVars, concVars>>

\* Namespace() of a ResourceID that was not built by NewResourceID
CallNamespaceRaw ==
    /\ raw = None
    /\ \E s \in Strings(MaxLen) :
          /\ raw' = Some(s)
          /\ rawNsOut' = Some(Namespace(s))
    /\ UNCHANGED <<kind, namespace, name, rid, nsOut, other, otherId>>
    /\ UNCHANGED <<keyVars, reqVars, flagVars, concVars>>

Next == CallNewResourceID \/ CallNamespace \/ CallNamespaceRaw

Spec == Init /\ [][Next]_vars

----------------------------------------------------------------------------
(* ResourceID: two triples of defined kinds and their IDs *)

InitPair ==
    /\ kind \in ResourceKinds
    /\ namespace \in Strings(MaxPairLen)
    /\ name \in Strings(MaxPairLen)
    /\ rid = None /\ nsOut = None /\ raw = None /\ rawNsOut = None
    /\ other = None /\ otherId = None
    /\ IdleKey /\ IdleReq /\ IdleFlags /\ IdleConc

CallNewResourceIDOther ==
    /\ rid # None /\ other = None
    /\ \E k2 \in ResourceKinds, ns2 \in Strings(MaxPairLen), nm2 \in Strings(MaxPairLen) :
          /\ other' = Some(<<k2, ns2, nm2>>)
          /\ otherId' = Some(NewResourceID(k2, ns2, nm2))
    /\ UNCHANGED <<kind, namespace, name, rid, nsOut, raw, rawNsOut>>
    /\ UNCHANGED <<keyVars, reqVars, flagVars, concVars>>

NextPair == CallNewResourceID \/ CallNewResourceIDOther

SpecPair == InitPair /\ [][NextPair]_vars

----------------------------------------------------------------------------
(* EncryptKey *)

InitKey ==
    /\ key \in {EncryptKey(k) : k \in 0..MaxUint8}
    /\ keyValid = None /\ keyUint8 = None /\ keyString = None
    /\ IdleRID /\ IdleReq /\ IdleFlags /\ IdleConc

CallEncryptKeyIsValid ==
    /\ keyValid = None
    /\ keyValid' = Some(EncryptKeyIsValid(key))
    /\ UNCHANGED <<key, keyUint8, keyString, ridVars, reqVars, flagVars, concVars>>

CallEncryptKeyUint8 ==
    /\ keyUint8 = None
    /\ keyUint8' = Some(EncryptKeyUint8(key))
    /\ UNCHANGED <<key, keyValid, keyString, ridVars, reqVars, flagVars, concVars>>

CallEncryptKeyString ==
    /\ keyString = None
    /\ keyString' = Some(EncryptKeyString(key))
    /\ UNCHANGED <<key, keyValid, keyUint8, ridVars, reqVars, flagVars, concVars>>

NextKey == CallEncryptKeyIsValid \/ CallEncryptKeyUint8 \/ CallEncryptKeyString

SpecKey == InitKey /\ [][NextKey]_vars

----------------------------------------------------------------------------
(* RequestedIdentity *)

InitReq ==
    /\ reqId \in {RequestedIdentity(v) : v \in 0..MaxNumericIdentity}
    /\ reqValid = None /\ reqID = None
    /\ IdleRID /\ IdleKey /\ IdleFlags /\ IdleConc

CallRequestedIdentityIsValid ==
    /\ reqValid = None
    /\ reqValid' = Some(RequestedIdentityIsValid(reqId))
    /\ UNCHANGED <<reqId, reqID, ridVars, keyVars, flagVars, concVars>>

CallRequestedIdentityID ==
    /\ reqID = None
    /\ reqID' = Some(RequestedIdentityID(reqId))
    /\ UNCHANGED <<reqId, reqValid, ridVars, keyVars, flagVars, concVars>>

NextReq == CallRequestedIdentityIsValid \/ CallRequestedIdentityID

SpecReq == InitReq /\ [][NextReq]_vars

----------------------------------------------------------------------------
(* EndpointFlags, one owner.  A result of IsValid() or Uint8() is recorded *)
(* with the number of SetSkipTunnel calls that preceded it.                *)

InitFlags == IdleFlags /\ IdleRID /\ IdleKey /\ IdleReq /\ IdleConc

CallSetSkipTunnel ==
    /\ Len(calls) < MaxCalls
    /\ \E skip \in BOOLEAN :
          /\ e' = SetSkipTunnel(e, skip)
          /\ calls' = Append(calls, skip)
    /\ UNCHANGED <<validOut, uint8Out, ridVars, keyVars, reqVars, concVars>>

CallIsValid ==
    /\ validOut' = Some([after |-> Len(calls), value |-> EndpointFlagsIsValid(e)])
    /\ UNCHANGED <<e, calls, uint8Out, ridVars, keyVars, reqVars, concVars>>

CallUint8 ==
    /\ uint8Out' = Some([after |-> Len(calls), value |-> EndpointFlagsUint8(e)])
    /\ UNCHANGED <<e, calls, validOut, ridVars, keyVars, reqVars, concVars>>

NextFlags == CallSetSkipTunnel \/ CallIsValid \/ CallUint8

SpecFlags == InitFlags /\ [][NextFlags]_vars

----------------------------------------------------------------------------
(* EndpointFlags, shared.  The owner serialises the SetSkipTunnel calls of *)
(* the writers with a lock; SetSkipTunnel itself is two plain stores.  A   *)
(* reader calls IsValid() and then Uint8() on the shared instance; each    *)
(* call loads the field it returns.  Reader r1 takes no lock, reader r2    *)
(* holds the owner's lock around its two calls.                            *)

InitConc == IdleConc /\ IdleFlags /\ IdleRID /\ IdleKey /\ IdleReq

\* the pairs of the instance before and after the calls in progress
PairsInProgress == {quiet} \cup {PairAfter(warg[w]) : w \in {x \in Writers : wpc[x] # "idle"}}

\* a writer takes the lock and enters SetSkipTunnel(skip)
WriterEnter(w) ==
    /\ wpc[w] = "idle" /\ lock = "free"
    /\ \E skip \in BOOLEAN :
          /\ warg' = [warg EXCEPT ![w] = skip]
          /\ allowed' = [r \in Readers |->
                            IF rpc[r] \in {"begun", "valid"}
                            THEN allowed[r] \cup {PairAfter(skip)}
                            ELSE allowed[r]]
    /\ lock' = w
    /\ wpc' = [wpc EXCEPT ![w] = "call"]
    /\ UNCHANGED <<rpc, rValid, rBits, quiet, ridVars, keyVars, reqVars, flagVars>>

WriterStoreIsInit(w) ==
    /\ wpc[w] = "call"
    /\ e' = StoreIsInit(e)
    /\ wpc' = [wpc EXCEPT ![w] = "mid"]
    /\ UNCHANGED <<lock, warg, rpc, rValid, rBits, quiet, allowed>>
    /\ UNCHANGED <<calls, validOut, uint8Out, ridVars, keyVars, reqVars>>

WriterStoreFlagSkipTunnel(w) ==
    /\ wpc[w] = "mid"
    /\ e' = StoreFlagSkipTunnel(e, warg[w])
    /\ wpc' = [wpc EXCEPT ![w] = "ret"]
    /\ UNCHANGED <<lock, warg, rpc, rValid, rBits, quiet, allowed>>
    /\ UNCHANGED <<calls, validOut, uint8Out, ridVars, keyVars, reqVars>>

\* SetSkipTunnel has returned; the writer gives the lock back
WriterLeave(w) ==
    /\ wpc[w] = "ret"
    /\ lock' = "free"
    /\ wpc' = [wpc EXCEPT ![w] = "idle"]
    /\ quiet' = PairAfter(warg[w])
    /\ UNCHANGED <<warg, rpc, rValid, rBits, allowed, ridVars, keyVars, reqVars, flagVars>>

ReaderBegin(r) ==
    /\ rpc[r] = "idle"
    /\ IF r \in LockedReaders
       THEN lock = "free" /\ lock' = r
       ELSE lock' = lock
    /\ allowed' = [allowed EXCEPT ![r] = PairsInProgress]
    /\ rpc' = [rpc EXCEPT ![r] = "begun"]
    /\ UNCHANGED <<wpc, warg, rValid, rBits, quiet, ridVars, keyVars, reqVars, flagVars>>

ReaderIsValid(r) ==
    /\ rpc[r] = "begun"
    /\ rValid' = [rValid EXCEPT ![r] = EndpointFlagsIsValid(e)]
    /\ rpc' = [rpc EXCEPT ![r] = "valid"]
    /\ UNCHANGED <<lock, wpc, warg, rBits, quiet, allowed, ridVars, keyVars, reqVars, flagVars>>

ReaderUint8(r) ==
    /\ rpc[r] = "valid"
    /\ rBits' = [rBits EXCEPT ![r] = EndpointFlagsUint8(e)]
    /\ rpc' = [rpc EXCEPT ![r] = "seen"]
    /\ UNCHANGED <<lock, wpc, warg, rValid, quiet, allowed, ridVars, keyVars, reqVars, flagVars>>

ReaderEnd(r) ==
    /\ rpc[r] = "seen"
    /\ lock' = IF lock = r THEN "free" ELSE lock
    /\ rpc' = [rpc EXCEPT ![r] = "idle"]
    /\ UNCHANGED <<wpc, warg, rValid, rBits, quiet, allowed, ridVars, keyVars, reqVars, flagVars>>

NextConc ==
    \/ \E w \in Writers :
          WriterEnter(w) \/ WriterStoreIsInit(w) \/ WriterStoreFlagSkipTunnel(w) \/ WriterLeave(w)
    \/ \E r \in Readers :
          ReaderBegin(r) \/ ReaderIsValid(r) \/ ReaderUint8(r) \/ ReaderEnd(r)

SpecConc == InitConc /\ [][NextConc]_vars

----------------------------------------------------------------------------
(* Properties *)

Slash == <<"/">>

\* C1 as stated: for every kind string and every namespace and name without
\* '/', Namespace() of the ID built from them is the namespace.
C1_RoundTripAnyKind ==
    (nsOut # None /\ NoSlash(namespace) /\ NoSlash(name)) => nsOut[1] = namespace

\* C1, amended: for every kind, namespace and name without '/', Namespace()
\* of NewResourceID(kind, namespace, name) is exactly namespace, the empty
\* namespace included.
C1_RoundTrip ==
    (nsOut # None /\ NoSlash(kind) /\ NoSlash(namespace) /\ NoSlash(name))
        => nsOut[1] = namespace

C1_Witness ==
    /\ kind = ResourceKindCNP /\ namespace = <<"a", "a">> /\ name = <<"a">>
    /\ nsOut = Some(namespace)

\* C2: NewResourceID returns kind, "/", namespace, "/", name concatenated, for
\* all arguments, with both delimiters also when namespace or name is empty.
C2_Concatenation ==
    /\ rid # None => rid[1] = kind \o Slash \o namespace \o Slash \o name
    /\ NewResourceID(ResourceKindDaemon, <<>>, <<"s","t","a","r","t","u","p">>)
          = <<"d","a","e","m","o","n","/","/","s","t","a","r","t","u","p">>
    /\ NewResourceID(ResourceKindCNP,
                     <<"k","u","b","e","-","s","y","s","t","e","m">>,
                     <<"a","l","l","o","w","-","d","n","s">>)
          = <<"c","n","p","/","k","u","b","e","-","s","y","s","t","e","m","/",
              "a","l","l","o","w","-","d","n","s">>

C2_Witness ==
    /\ kind = ResourceKindDaemon /\ namespace = <<>> /\ name = <<"a">>
    /\ rid = Some(<<"d","a","e","m","o","n","/","/","a">>)

\* C3 as stated: two triples with kinds from the defined constants that give
\* equal ResourceIDs are equal component by component.
C3_InjectiveAnyNamespace ==
    (otherId # None /\ otherId = rid) => other[1] = <<kind, namespace, name>>

\* C3, amended: two triples with kinds from the defined constants and
\* namespaces without '/' that give equal ResourceIDs are equal component by
\* component.
C3_Injective ==
    (otherId # None /\ otherId = rid /\ NoSlash(namespace) /\ NoSlash(other[1][2]))
        => other[1] = <<kind, namespace, name>>

C3_Witness ==
    /\ otherId # None /\ otherId = rid
    /\ namespace = <<"a">> /\ name = Slash
    /\ other[1] = <<kind, namespace, name>>

\* C4: a fresh EndpointFlags is not valid; IsValid() returns true after the
\* first SetSkipTunnel call, whatever its argument, and no later call makes
\* the value invalid again.
C4_OneWayInit ==
    /\ [](validOut # None => (validOut[1].value <=> validOut[1].after > 0))
    /\ [](EndpointFlagsIsValid(e) <=> calls # <<>>)
    /\ [][EndpointFlagsIsValid(e) => EndpointFlagsIsValid(e')]_vars

C4_Witness ==
    /\ Len(calls) >= 2 /\ ~calls[1] /\ ~calls[Len(calls)]
    /\ validOut # None /\ validOut[1].after = Len(calls) /\ validOut[1].value

\* the argument of the n-th SetSkipTunnel call, false when n = 0
SkipAfter(n) == n > 0 /\ calls[n]

\* C5: Uint8() is 1 when the most recent SetSkipTunnel call passed true and 0
\* otherwise, also when no call was made; it never sets bits 1 to 7 and does
\* not depend on the initialized flag, so a fresh value and a value after
\* SetSkipTunnel(false) differ in IsValid() only.
C5_Uint8Encoding ==
    /\ uint8Out # None =>
          uint8Out[1].value = (IF SkipAfter(uint8Out[1].after) THEN 1 ELSE 0)
    /\ EndpointFlagsUint8(e) = (IF SkipAfter(Len(calls)) THEN 1 ELSE 0)
    /\ EndpointFlagsUint8(e) \div 2 = 0
    /\ EndpointFlagsUint8([e EXCEPT !.isInit = ~e.isInit]) = EndpointFlagsUint8(e)
    /\ (calls # <<>> /\ ~calls[Len(calls)]) =>
          /\ EndpointFlagsUint8(e) = EndpointFlagsUint8(NewEndpointFlags)
          /\ EndpointFlagsIsValid(e) # EndpointFlagsIsValid(NewEndpointFlags)

C5_Witness ==
    /\ Len(calls) >= 2 /\ calls[1] /\ ~calls[Len(calls)]
    /\ uint8Out # None /\ uint8Out[1].after = Len(calls) /\ uint8Out[1].value = 0
    /\ e.isInit

\* C6: Namespace() of a string without '/' is the empty string, the result it
\* also gives for an ID built with an empty namespace.
C6_MalformedIsEmpty ==
    /\ (rawNsOut # None /\ NoSlash(raw[1])) => rawNsOut[1] = <<>>
    /\ (nsOut # None /\ NoSlash(kind) /\ namespace = <<>>) => nsOut[1] = <<>>

C6_Witness ==
    /\ raw = Some(<<"a", "a">>) /\ rawNsOut = Some(<<>>)
    /\ kind \in ResourceKinds /\ namespace = <<>> /\ nsOut = rawNsOut

\* value of a string of decimal digits
RECURSIVE ParseDecimal(_)
ParseDecimal(s) ==
    IF s = <<>> THEN 0
    ELSE 10 * ParseDecimal(SubSeq(s, 1, Len(s) - 1))
         + (CHOOSE d \in 0..9 : DigitChars[d + 1] = s[Len(s)])

IsDecimalOf(s, k) ==
    /\ Len(s) >= 1
    /\ \A i \in 1..Len(s) : \E d \in 1..10 : DigitChars[d] = s[i]
    /\ Len(s) > 1 => s[1] # "0"
    /\ ParseDecimal(s) = k

\* C7: for every k in 0..255, EncryptKey(k).IsValid() is true exactly when
\* k # 0, Uint8() is k and String() is the decimal representation of k.
C7_EncryptKey ==
    /\ keyValid # None => (keyValid[1] <=> key # 0)
    /\ keyUint8 # None => keyUint8[1] = key
    /\ keyString # None => IsDecimalOf(keyString[1], key)

C7_Witness ==
    /\ key = 205
    /\ keyValid = Some(TRUE) /\ keyUint8 = Some(205) /\ keyString = Some(<<"2", "0", "5">>)

\* C8: RequestedIdentity(v).IsValid() is true exactly when v # 0, and ID()
\* returns v unchanged, also for v = 0.
C8_RequestedIdentity ==
    /\ reqValid # None => (reqValid[1] <=> reqId # 0)
    /\ reqID # None => reqID[1] = reqId

C8_Witness ==
    /\ reqId = 1 /\ reqValid = Some(TRUE) /\ reqID = Some(1)

\* C9: for every kind and namespace without '/' and every name, also one that
\* contains '/', Namespace() of the ID returns the namespace: the split stops
\* at three parts and the third part is the whole name.
C9_NameWithDelimiter ==
    (nsOut # None /\ NoSlash(kind) /\ NoSlash(namespace)) =>
        /\ nsOut[1] = namespace
        /\ SplitN(rid[1], "/", 3) = <<kind, namespace, name>>

C9_Witness ==
    /\ kind = ResourceKindFile /\ namespace = <<"a">> /\ name = <<"/", "a">>
    /\ nsOut = Some(namespace)

ObservedPair(r) == <<rValid[r], rBits[r]>>

\* C10 as stated: with the SetSkipTunnel calls mutually exclusive, a reader
\* that takes no lock observes only pairs the instance has before or after a
\* complete SetSkipTunnel call.
C10_UnlockedReaderSeesWholeCalls ==
    \A r \in Readers \ LockedReaders :
        rpc[r] = "seen" => ObservedPair(r) \in allowed[r]

\* C10, amended: with the SetSkipTunnel calls mutually exclusive, a reader
\* that holds the owner's lock around its IsValid() and Uint8() calls
\* observes only pairs the instance has before or after a complete
\* SetSkipTunnel call.
C10_LockedReaderSeesWholeCalls ==
    \A r \in LockedReaders :
        rpc[r] = "seen" => ObservedPair(r) \in allowed[r]

C10_Witness ==
    \E r \in LockedReaders :
        /\ rpc[r] = "seen" /\ ObservedPair(r) = <<TRUE, 1>>
        /\ \E u \in Readers \ LockedReaders :
              rpc[u] = "seen" /\ ObservedPair(u) = <<TRUE, 0>> /\ quiet = <<TRUE, 1>>

============================================================================
